---- MODULE Spec2Model ----
(***************************************************************************)
(* Model of the counter store of src/src/store/store.tsx: a zustand store  *)
(* { count, increment, decrement, reset, incrementQty, decrementQty }      *)
(* wrapped in the persist middleware under the localStorage key            *)
(* "counter-storage".  create() and persist() are modelled by what the     *)
(* zustand calls of store.tsx do: setState merges a partial into the       *)
(* state, then calls every listener with (state, previousState), then the  *)
(* middleware writes JSON.stringify({state, version}) to the storage.      *)
(***************************************************************************)
EXTENDS Integers, Sequences, FiniteSets, TLC

\* ---------------------------------------------------------------- bounds
MaxCount == 6           \* |count| stays within this bound
MaxQty == 5             \* |qty| of incrementQty / decrementQty
NumSubscribers == 2     \* callbacks that may be passed to subscribe

Counts == (0 - MaxCount)..MaxCount
Qtys == (0 - MaxQty)..MaxQty
Subscribers == 1..NumSubscribers

\* ------------------------------------------------------ program constants
StorageName == "counter-storage"
OptionsVersion == 0

VARIABLES
  state,        \* the store's state object (count and the five actions)
  listeners,    \* registered callbacks, in registration order
  storage,      \* localStorage: [present, key, value] of the one record
  full,         \* the origin's storage quota is used up: setItem throws
  last,         \* the operation performed last: [op, threw, prior]; prior is
                \* the write outcome the previous instance ended with
  wrote,        \* outcome of the storage write of the instance's latest mutation
  notes,        \* per callback, its invocations during the last operation
  unsubscribed, \* callbacks whose unsubscribe function has been invoked
  boot,         \* what the instance found in the storage when constructed
  ref,          \* reference counter: plain arithmetic on the same calls
  scen,         \* progress in increment, incrementQty(5), decrementQty(2), reset
  run,          \* the streak of calls in progress: [kind, c, n, k]
  uiQty,        \* the Count component's qty state: [kind, v]
  nan,          \* the count is NaN (state.count then holds no number)
  got,          \* what the last getState().count returned
  state2,       \* the state of a second store instance over the same storage
  who,          \* the instance that performed the last operation
  plain,        \* the state of the store created without persist
  plainNotes    \* per callback, its invocations by the store without persist

vars ==
  <<state, listeners, storage, full, last, wrote, notes, unsubscribed, boot, ref,
    scen, run, uiQty, nan, got, state2, who, plain, plainNotes>>

\* What only some of the specifications below let change
extras == <<run, uiQty, nan, got, state2, who, plain, plainNotes>>

\* ------------------------------------------------------------ JSON text
\* A stored value is a sequence of JSON tokens; numbers are written digit
\* by digit, as JSON.stringify writes them.
Digit(d) ==
  CASE d = 0 -> "0" [] d = 1 -> "1" [] d = 2 -> "2" [] d = 3 -> "3"
    [] d = 4 -> "4" [] d = 5 -> "5" [] d = 6 -> "6" [] d = 7 -> "7"
    [] d = 8 -> "8" [] d = 9 -> "9"

DigitChars == {"0", "1", "2", "3", "4", "5", "6", "7", "8", "9"}

DigitValue(ch) == CHOOSE d \in 0..9 : Digit(d) = ch

RECURSIVE Digits(_)
Digits(n) == IF n < 10 THEN <<Digit(n)>>
             ELSE Append(Digits(n \div 10), Digit(n % 10))

\* Mutation: the sign of a negative number is not written
NumberToJSONUnsigned(n) == IF n < 0 THEN Digits(0 - n) ELSE Digits(n)

NumberToJSON(n) == IF n < 0 THEN <<"-">> \o Digits(0 - n) ELSE Digits(n)

RECURSIVE DigitsValue(_)
DigitsValue(t) == IF Len(t) = 0 THEN 0
                  ELSE 10 * DigitsValue(SubSeq(t, 1, Len(t) - 1)) + DigitValue(t[Len(t)])

\* JSON number grammar (integers): -? (0 | [1-9][0-9]*)
IsJSONInt(t) ==
  LET body == IF Len(t) > 0 /\ t[1] = "-" THEN Tail(t) ELSE t
  IN /\ Len(body) > 0
     /\ \A i \in 1..Len(body) : body[i] \in DigitChars
     /\ (Len(body) > 1 => body[1] # "0")

JSONToNumber(t) == IF t[1] = "-" THEN 0 - DigitsValue(Tail(t)) ELSE DigitsValue(t)

\* JSON.stringify({ state, version }): function-valued properties of the
\* state (the five actions) are dropped, count is kept.
RecordHead == <<"{", "state", ":", "{">>
CountKey == <<"count", ":">>
RecordMid == <<"}", ",", "version", ":">>
RecordEnd == <<"}">>

JSONStringify(st, version) ==
  RecordHead \o CountKey \o NumberToJSON(st.count) \o RecordMid
    \o NumberToJSON(version) \o RecordEnd

\* JSON.parse of a stored value.  Recognised: the literal null and objects
\* of the shape {"state":{...},"version":n} whose state holds count or
\* nothing; any other text is a SyntaxError (threw).
EmptyObject == [k \in {} |-> 0]

ParseFailure == [threw |-> TRUE, isNull |-> FALSE, state |-> EmptyObject, version |-> 0]

ClosingBrace(t) == CHOOSE i \in 5..Len(t) : t[i] = "}" /\ \A j \in 5..(i - 1) : t[j] # "}"

JSONParse(t) ==
  IF t = <<"null">>
  THEN [threw |-> FALSE, isNull |-> TRUE, state |-> EmptyObject, version |-> 0]
  ELSE IF \/ Len(t) < 10
          \/ SubSeq(t, 1, 4) # RecordHead
          \/ t[Len(t)] # "}"
  THEN ParseFailure
  ELSE LET i == ClosingBrace(t)
           inner == SubSeq(t, 5, i - 1)
           ver == SubSeq(t, i + 4, Len(t) - 1)
       IN IF \/ i + 4 > Len(t) - 1
             \/ SubSeq(t, i, i + 3) # RecordMid
             \/ ~IsJSONInt(ver)
          THEN ParseFailure
          ELSE IF inner = <<>>
          THEN [threw |-> FALSE, isNull |-> FALSE, state |-> EmptyObject,
                version |-> JSONToNumber(ver)]
          ELSE IF /\ Len(inner) > 2
                  /\ SubSeq(inner, 1, 2) = CountKey
                  /\ IsJSONInt(SubSeq(inner, 3, Len(inner)))
          THEN [threw |-> FALSE, isNull |-> FALSE,
                state |-> [count |-> JSONToNumber(SubSeq(inner, 3, Len(inner)))],
                version |-> JSONToNumber(ver)]
          ELSE ParseFailure

\* ------------------------------------------------- the store (store.tsx)
\* What the state creator returns: count 0 and the five actions.
ConfigResult ==
  [count |-> 0, increment |-> "fn", decrement |-> "fn", reset |-> "fn",
   incrementQty |-> "fn", decrementQty |-> "fn"]

\* Object.assign({}, a, b), also { ...a, ...b }
ObjectAssign(a, b) ==
  [k \in (DOMAIN a) \cup (DOMAIN b) |-> IF k \in DOMAIN b THEN b[k] ELSE a[k]]

\* The partial each action hands to set
incrementPartial(st) == [count |-> st.count + 1]

\* Mutation: decrement stops at 0
decrementPartialFloor(st) == [count |-> IF st.count > 0 THEN st.count - 1 ELSE 0]

decrementPartial(st) == [count |-> st.count - 1]

\* Mutation: reset only clears a positive count
resetPartialFloor(st) == [count |-> IF st.count > 0 THEN 0 ELSE st.count]

resetPartial(st) == [count |-> 0]

\* Mutation: the quantity is ignored
incrementQtyPartialNoQty(st, qty) == [count |-> st.count + 1]

incrementQtyPartial(st, qty) == [count |-> st.count + qty]

\* Mutation: the quantity is added, as in incrementQty
decrementQtyPartialAdds(st, qty) == [count |-> st.count + qty]

decrementQtyPartial(st, qty) == [count |-> st.count - qty]

\* Mutation: the stored record is never merged in
RehydrateIgnoresRecord(store) == ConfigResult

\* persist's hydrate() at construction: read the record, parse it, drop it
\* when its version differs (no migrate option), else merge it over the
\* state creator's result.  A parse error is caught inside hydrate.
Rehydrate(store) ==
  IF ~store.present THEN ConfigResult
  ELSE LET p == JSONParse(store.value)
       IN IF p.threw \/ p.isNull THEN ConfigResult
          ELSE IF p.version # OptionsVersion THEN ConfigResult
          ELSE ObjectAssign(ConfigResult, p.state)

\* Mutation: the initial state is written instead of the current one
SetItemInitialState(st) ==
  [present |-> TRUE, key |-> StorageName,
   value |-> JSONStringify(ConfigResult, OptionsVersion)]

\* Mutation: a record already under the key is not overwritten
SetItemKeepsRecord(st) ==
  IF storage.present THEN storage
  ELSE [present |-> TRUE, key |-> StorageName, value |-> JSONStringify(st, OptionsVersion)]

\* persist's setItem(): the record written for a state
SetItem(st) ==
  [present |-> TRUE, key |-> StorageName, value |-> JSONStringify(st, OptionsVersion)]

NoRecord == [present |-> FALSE, key |-> StorageName, value |-> <<>>]

\* ------------------------------------------------ storage before start
\* Texts under the key that JSON.parse rejects
Unparseable ==
  { <<>>,
    <<"{">>,
    <<"undefined">>,
    RecordHead \o CountKey \o <<"4">>,
    RecordHead \o CountKey \o <<"-">> \o RecordMid \o <<"0">> \o RecordEnd,
    RecordHead \o CountKey \o <<"0", "3">> \o RecordMid \o <<"0">> \o RecordEnd }

\* Texts that parse but carry no usable state: null, a record of another
\* version, a record whose state is empty
Unusable ==
  { <<"null">>,
    RecordHead \o CountKey \o <<"3">> \o RecordMid \o <<"1">> \o RecordEnd,
    RecordHead \o RecordMid \o <<"0">> \o RecordEnd }

TextRecord(t) == [present |-> TRUE, key |-> StorageName, value |-> t]

InitialStorage ==
  {NoRecord}
    \cup {TextRecord(JSONStringify([count |-> c], OptionsVersion)) : c \in Counts}
    \cup {TextRecord(t) : t \in Unparseable \cup Unusable}

\* ------------------------------------------------------------ listeners
IsListener(s) == \E i \in 1..Len(listeners) : listeners[i] = s

\* listeners.add(listener): a Set keeps one entry per callback
AddListener(ls, s) ==
  IF \E i \in 1..Len(ls) : ls[i] = s THEN ls ELSE Append(ls, s)

\* Mutation: unsubscribe leaves the callback registered
DeleteListenerKeeps(ls, s) == ls

\* listeners.delete(listener)
DeleteListener(ls, s) == SelectSeq(ls, LAMBDA x : x # s)

\* The callbacks with an odd number are passed to subscribe together with
\* the selector state => state.count, the others alone.
HasSelector(s) == s % 2 = 1

\* Mutation: the two arguments are passed in the wrong order
DeliverySwapped(newState, previousState, current) ==
  [new |-> previousState.count, prev |-> newState.count, seen |-> current.count]

\* One call listener(state, previousState); seen is what getState()
\* returns inside the callback.
Delivery(newState, previousState, current) ==
  [new |-> newState.count, prev |-> previousState.count, seen |-> current.count]

\* Mutation: the partial replaces the state instead of being merged
SetStateReplaces(st, nextState) == nextState

\* vanilla setState with replace undefined: merge the partial into the state
SetState(st, nextState) == ObjectAssign(st, nextState)

\* Mutation: the listeners run before the state is assigned
NotifyListenersEarly(newState, previousState) ==
  [s \in Subscribers |->
     IF IsListener(s) THEN <<Delivery(newState, previousState, previousState)>> ELSE <<>>]

\* listeners.forEach(listener => listener(state, previousState)), run after
\* the assignment to state: subscribe ignores a second argument, every
\* registered callback is called.
NotifyListeners(newState, previousState) ==
  [s \in Subscribers |->
     IF IsListener(s) THEN <<Delivery(newState, previousState, newState)>> ELSE <<>>]

NoNotes == [s \in Subscribers |-> <<>>]

\* Mutation: a parse error of the stored text escapes construction
HydrateThrowsOnSyntaxError(store) == store.present /\ JSONParse(store.value).threw

\* hydrate() catches what getItem and JSON.parse throw
HydrateThrows(store) == FALSE

\* --------------------------------------------------------------- monitors
ScenNext(sc, op, qty) ==
  IF sc = 0 /\ op = "increment" THEN 1
  ELSE IF sc = 1 /\ op = "incrementQty" /\ qty = 5 THEN 2
  ELSE IF sc = 2 /\ op = "decrementQty" /\ qty = 2 THEN 3
  ELSE IF sc = 3 /\ op = "reset" THEN 4
  ELSE 0 - 1

\* The content of the storage at construction, by the sets it was drawn from
BootKind(store) ==
  IF ~store.present THEN "absent"
  ELSE IF store.value \in Unparseable THEN "unparseable"
  ELSE IF store.value \in Unusable THEN "unusable"
  ELSE "record"

RefNext(r, op, qty) ==
  CASE op = "increment" -> r + 1
    [] op = "decrement" -> r - 1
    [] op = "reset" -> 0
    [] op = "incrementQty" -> r + qty
    [] op = "decrementQty" -> r - qty

\* ----------------------------------------------------------------- actions
\* Construction of the store: create()(persist(...)) evaluates the state
\* creator and hydrates from the storage; no callback is registered yet.
\* The state after construction over a storage drawn from the set stores
Constructed(stores) ==
  /\ storage \in stores
  /\ full = FALSE
  /\ state = Rehydrate(storage)
  /\ listeners = <<>>
  /\ last = [op |-> "create", threw |-> HydrateThrows(storage), prior |-> "none"]
  /\ boot = BootKind(storage)
  /\ wrote = "none"
  /\ notes = NoNotes
  /\ unsubscribed = {}
  /\ ref = Rehydrate(storage).count
  /\ scen = IF Rehydrate(storage) = ConfigResult THEN 0 ELSE 0 - 1

\* No streak is followed
NoRun == [kind |-> "none", c |-> 0, n |-> 0, k |-> 0]

\* useState<number>(): qty is undefined until the input changes
Undefined == [kind |-> "undefined", v |-> 0]

\* The state creator of the store without persist (same fields)
PlainConfigResult ==
  [count |-> 0, increment |-> "fn", decrement |-> "fn", reset |-> "fn",
   incrementQty |-> "fn", decrementQty |-> "fn"]

\* One persisted store, no component mounted, nothing else created
Alone ==
  /\ run = NoRun
  /\ uiQty = Undefined
  /\ nan = FALSE
  /\ got = 0
  /\ state2 = ConfigResult
  /\ who = 1
  /\ plain = PlainConfigResult
  /\ plainNotes = NoNotes

Frame == UNCHANGED extras

\* First visit: nothing is stored under the key
Init == Constructed({NoRecord}) /\ Alone

\* Start over whatever an earlier run, or anything else, left under the key
InitStored == Constructed(InitialStorage) /\ Alone

\* A page reload: the module is evaluated again over the same storage.
Create ==
  /\ state' = Rehydrate(storage)
  /\ listeners' = <<>>
  /\ last' = [op |-> "create", threw |-> HydrateThrows(storage), prior |-> wrote]
  /\ boot' = BootKind(storage)
  /\ wrote' = "none"
  /\ notes' = NoNotes
  /\ unsubscribed' = {}
  /\ ref' = Rehydrate(storage).count
  /\ scen' = IF Rehydrate(storage) = ConfigResult THEN 0 ELSE 0 - 1
  /\ UNCHANGED <<storage, full>>

\* One action call: the wrapped set of persist runs set(partial), which
\* assigns the merged state and calls the listeners, and then setItem().
\* localStorage.setItem throws when the quota is used up (QuotaExceededError);
\* nothing between it and the caller of the action catches that.
Mutate(op, qty, partial) ==
  LET previousState == state
      newState == SetState(state, partial)
  IN /\ newState.count \in Counts
     /\ state' = newState
     /\ notes' = NotifyListeners(newState, previousState)
     /\ storage' = IF full THEN storage ELSE SetItem(newState)
     /\ wrote' = IF full THEN "failed" ELSE "ok"
     /\ last' = [op |-> op, threw |-> full, prior |-> "none"]
     /\ ref' = RefNext(ref, op, qty)
     /\ scen' = ScenNext(scen, op, qty)
     /\ UNCHANGED <<listeners, unsubscribed, boot, full>>

Increment == Mutate("increment", 0, incrementPartial(state))

Decrement == Mutate("decrement", 0, decrementPartial(state))

Reset == Mutate("reset", 0, resetPartial(state))

IncrementQty == \E qty \in Qtys : Mutate("incrementQty", qty, incrementQtyPartial(state, qty))

DecrementQty == \E qty \in Qtys : Mutate("decrementQty", qty, decrementQtyPartial(state, qty))

\* subscribe(callback [, selector])
Subscribe ==
  \E s \in Subscribers :
    /\ listeners' = AddListener(listeners, s)
    /\ unsubscribed' = unsubscribed \ {s}
    /\ notes' = NoNotes
    /\ last' = [op |-> "subscribe", threw |-> FALSE, prior |-> "none"]
    /\ UNCHANGED <<state, storage, full, wrote, boot, ref, scen>>

\* The function subscribe returned, called (possibly again)
Unsubscribe ==
  \E s \in Subscribers :
    /\ IsListener(s) \/ s \in unsubscribed
    /\ listeners' = DeleteListener(listeners, s)
    /\ unsubscribed' = unsubscribed \cup {s}
    /\ notes' = NoNotes
    /\ last' = [op |-> "unsubscribe", threw |-> FALSE, prior |-> "none"]
    /\ UNCHANGED <<state, storage, full, wrote, boot, ref, scen>>

Next ==
  \/ Create /\ Frame
  \/ Increment /\ Frame
  \/ Decrement /\ Frame
  \/ Reset /\ Frame
  \/ IncrementQty /\ Frame
  \/ DecrementQty /\ Frame
  \/ Subscribe /\ Frame
  \/ Unsubscribe /\ Frame

Spec == Init /\ [][Next]_vars

\* Other data of the origin uses up the storage quota
Fill ==
  /\ ~full
  /\ full' = TRUE
  /\ UNCHANGED <<state, listeners, storage, last, wrote, notes, unsubscribed, boot, ref, scen>>
  /\ Frame

\* Other data of the origin is removed: there is room again
Free ==
  /\ full
  /\ full' = FALSE
  /\ UNCHANGED <<state, listeners, storage, last, wrote, notes, unsubscribed, boot, ref, scen>>
  /\ Frame

\* The store and its subscribers while the quota may run out
NextQuota ==
  \/ Next
  \/ Fill
  \/ Free

SpecQuota == Init /\ [][NextQuota]_vars

\* The store alone, nothing subscribed, over any initial storage, while the
\* quota may run out
NextStore ==
  \/ Create /\ Frame
  \/ Increment /\ Frame
  \/ Decrement /\ Frame
  \/ Reset /\ Frame
  \/ IncrementQty /\ Frame
  \/ DecrementQty /\ Frame
  \/ Fill
  \/ Free

SpecStored == InitStored /\ [][NextStore]_vars

\* ------------------------------------------------------ streaks of calls
\* The streak after one more call op(q) made at count before: consecutive
\* increment() or decrement() calls, or incrementQty(k) answered by
\* decrementQty(k)
RunNext(r, op, q, before) ==
  CASE op \in {"increment", "decrement"} ->
         IF r.kind = op THEN [r EXCEPT !.n = r.n + 1]
         ELSE [kind |-> op, c |-> before, n |-> 1, k |-> 0]
    [] op = "incrementQty" -> [kind |-> op, c |-> before, n |-> 1, k |-> q]
    [] op = "decrementQty" ->
         IF r.kind = "incrementQty" /\ r.k = q
         THEN [kind |-> "restored", c |-> r.c, n |-> 2, k |-> q]
         ELSE NoRun
    [] op = "reset" -> NoRun

RunFrame == UNCHANGED <<uiQty, nan, got, state2, who, plain, plainNotes>>

RunIncrement ==
  /\ Increment
  /\ run' = RunNext(run, "increment", 0, state.count)
  /\ RunFrame

RunDecrement ==
  /\ Decrement
  /\ run' = RunNext(run, "decrement", 0, state.count)
  /\ RunFrame

RunReset ==
  /\ Reset
  /\ run' = RunNext(run, "reset", 0, state.count)
  /\ RunFrame

RunIncrementQty ==
  \E q \in Qtys :
    /\ Mutate("incrementQty", q, incrementQtyPartial(state, q))
    /\ run' = RunNext(run, "incrementQty", q, state.count)
    /\ RunFrame

RunDecrementQty ==
  \E q \in Qtys :
    /\ Mutate("decrementQty", q, decrementQtyPartial(state, q))
    /\ run' = RunNext(run, "decrementQty", q, state.count)
    /\ RunFrame

NextRuns ==
  \/ RunIncrement
  \/ RunDecrement
  \/ RunReset
  \/ RunIncrementQty
  \/ RunDecrementQty

\* The store alone over any initial storage, its streaks of calls followed
SpecRuns == InitStored /\ [][NextRuns]_vars

\* ------------------------------------------------------------ getState
\* Mutation: the state the store was created with is returned
getInitialState(st) == ConfigResult

\* vanilla api.getState: () => state
getState(st) == st

\* fn: const count = useCountStore.getState().count
GetState ==
  /\ got' = getState(state).count
  /\ last' = [op |-> "getState", threw |-> FALSE, prior |-> "none"]
  /\ notes' = NoNotes
  /\ UNCHANGED <<state, listeners, storage, full, wrote, unsubscribed, boot, ref, scen>>
  /\ UNCHANGED <<run, uiQty, nan, state2, who, plain, plainNotes>>

\* fn has returned: its local count is gone
Forget ==
  /\ got' = 0
  /\ UNCHANGED <<run, uiQty, nan, state2, who, plain, plainNotes>>

\* The store and its subscribers, the state read at any moment
NextRead ==
  \/ Create /\ Forget
  \/ Increment /\ Forget
  \/ Decrement /\ Forget
  \/ Reset /\ Forget
  \/ IncrementQty /\ Forget
  \/ DecrementQty /\ Forget
  \/ Subscribe /\ Forget
  \/ Unsubscribe /\ Forget
  \/ GetState

SpecRead == Init /\ [][NextRead]_vars

\* ------------------------------------------------- the Count component
\* JavaScript numbers as far as the component meets them: NaN or an integer
NaN == [kind |-> "nan", v |-> 0]

Number(n) == [kind |-> "int", v |-> n]

RECURSIVE LeadingDigits(_)
LeadingDigits(t) ==
  IF Len(t) = 0 \/ t[1] \notin DigitChars THEN <<>>
  ELSE <<t[1]>> \o LeadingDigits(Tail(t))

\* parseInt(text): an optional sign, then the digits up to the first other
\* character; NaN when no digit is there
ParseInt(t) ==
  LET negative == Len(t) > 0 /\ t[1] = "-"
      digits == LeadingDigits(IF negative THEN Tail(t) ELSE t)
  IN IF digits = <<>> THEN NaN
     ELSE Number(IF negative THEN 0 - DigitsValue(digits) ELSE DigitsValue(digits))

\* e.target.value of the number input: the empty text (emptied, or typed
\* text that is no number), integers, decimal fractions
InputValues ==
  {<<>>, <<"-", "0">>}
    \cup {NumberToJSON(q) : q \in Qtys}
    \cup {NumberToJSON(q) \o <<".", "5">> : q \in Qtys}

\* Mutation: qty !== 0
TruthyNotZero(q) == q.kind # "int" \/ q.v # 0

\* Mutation: qty !== undefined
TruthyDefined(q) == q.kind # "undefined"

\* qty ? ... : ...  (undefined, NaN and 0 are falsy)
Truthy(q) == q.kind = "int" /\ q.v # 0

UiFrame == UNCHANGED <<run, got, state2, who, plain, plainNotes>>

\* handleChange: setQty(parseInt(e.target.value))
HandleChange ==
  \E t \in InputValues :
    /\ uiQty' = ParseInt(t)
    /\ last' = [op |-> "change", threw |-> FALSE, prior |-> "none"]
    /\ notes' = NoNotes
    /\ UNCHANGED <<state, listeners, storage, full, wrote, unsubscribed, boot, ref, scen, nan>>
    /\ UiFrame

\* count + qty and count - qty are NaN when count or qty is no number
ClickQty(op, partial) ==
  /\ Mutate(op, uiQty.v, partial)
  /\ nan' = (nan \/ uiQty.kind # "int")
  /\ UNCHANGED uiQty
  /\ UiFrame

ClickPlain(action) ==
  /\ action
  /\ UNCHANGED <<uiQty, nan>>
  /\ UiFrame

\* The first button: incrementQty(qty) when qty is truthy, else increment
ClickIncrement ==
  IF Truthy(uiQty)
  THEN ClickQty("incrementQty", incrementQtyPartial(state, uiQty.v))
  ELSE ClickPlain(Increment)

\* The second button: decrementQty(qty) when qty is truthy, else decrement
ClickDecrement ==
  IF Truthy(uiQty)
  THEN ClickQty("decrementQty", decrementQtyPartial(state, uiQty.v))
  ELSE ClickPlain(Decrement)

\* The third button: reset
ClickReset ==
  /\ Reset
  /\ nan' = FALSE
  /\ UNCHANGED uiQty
  /\ UiFrame

\* A page reload: the store is created again and Count is mounted again
Reload ==
  /\ Create
  /\ uiQty' = Undefined
  /\ nan' = FALSE
  /\ UiFrame

NextCount ==
  \/ HandleChange
  \/ ClickIncrement
  \/ ClickDecrement
  \/ ClickReset
  \/ Reload

\* The page with the Count component over any initial storage
SpecCount == InitStored /\ [][NextCount]_vars

\* --------------------------------------- the store without persist
\* The five actions of the store created without the middleware
plainIncrementPartial(st) == [count |-> st.count + 1]

plainDecrementPartial(st) == [count |-> st.count - 1]

\* Mutation: reset leaves the count
plainResetPartialKeeps(st) == [count |-> st.count]

plainResetPartial(st) == [count |-> 0]

plainIncrementQtyPartial(st, qty) == [count |-> st.count + qty]

plainDecrementQtyPartial(st, qty) == [count |-> st.count - qty]

\* One action call on the plain store: set(partial) assigns the merged
\* state and calls the listeners; nothing is stored
PlainMutate(partial) ==
  LET previousState == plain
      newState == SetState(plain, partial)
  IN /\ plain' = newState
     /\ plainNotes' = NotifyListeners(newState, previousState)

PairFrame == UNCHANGED <<run, uiQty, nan, got, state2, who>>

\* The same call made on both stores
PairIncrement ==
  /\ Increment
  /\ PlainMutate(plainIncrementPartial(plain))
  /\ PairFrame

PairDecrement ==
  /\ Decrement
  /\ PlainMutate(plainDecrementPartial(plain))
  /\ PairFrame

PairReset ==
  /\ Reset
  /\ PlainMutate(plainResetPartial(plain))
  /\ PairFrame

PairIncrementQty ==
  \E k \in Qtys :
    /\ Mutate("incrementQty", k, incrementQtyPartial(state, k))
    /\ PlainMutate(plainIncrementQtyPartial(plain, k))
    /\ PairFrame

PairDecrementQty ==
  \E k \in Qtys :
    /\ Mutate("decrementQty", k, decrementQtyPartial(state, k))
    /\ PlainMutate(plainDecrementQtyPartial(plain, k))
    /\ PairFrame

\* A callback is subscribed to both stores, or unsubscribed from both
PairSubscribe ==
  /\ Subscribe
  /\ plainNotes' = NoNotes
  /\ UNCHANGED plain
  /\ PairFrame

PairUnsubscribe ==
  /\ Unsubscribe
  /\ plainNotes' = NoNotes
  /\ UNCHANGED plain
  /\ PairFrame

NextPair ==
  \/ PairIncrement
  \/ PairDecrement
  \/ PairReset
  \/ PairIncrementQty
  \/ PairDecrementQty
  \/ PairSubscribe
  \/ PairUnsubscribe

\* The persisted store on a first visit and the plain store side by side
SpecPair == Init /\ [][NextPair]_vars

\* ------------------------------------- two instances over one storage key
\* The page is open twice (two tabs of one origin): each has its own store
\* in memory, both use the key counter-storage.  persist does not listen to
\* the storage event: an instance reads the record only when it is created.
TabFrame == UNCHANGED <<run, uiQty, nan, got, plain, plainNotes>>

\* An action call in the first instance
First(action) ==
  /\ action
  /\ who' = 1
  /\ UNCHANGED state2
  /\ TabFrame

\* An action call in the second instance
Mutate2(op, partial) ==
  LET newState == SetState(state2, partial)
  IN /\ newState.count \in Counts
     /\ state2' = newState
     /\ storage' = IF full THEN storage ELSE SetItem(newState)
     /\ wrote' = IF full THEN "failed" ELSE "ok"
     /\ last' = [op |-> op, threw |-> full, prior |-> "none"]
     /\ who' = 2
     /\ notes' = NoNotes
     /\ UNCHANGED <<state, listeners, unsubscribed, boot, ref, scen, full>>
     /\ TabFrame

FirstIncrement == First(Increment)

FirstDecrement == First(Decrement)

FirstReset == First(Reset)

FirstIncrementQty == First(IncrementQty)

FirstDecrementQty == First(DecrementQty)

SecondIncrement == Mutate2("increment", incrementPartial(state2))

SecondDecrement == Mutate2("decrement", decrementPartial(state2))

SecondReset == Mutate2("reset", resetPartial(state2))

SecondIncrementQty ==
  \E qty \in Qtys : Mutate2("incrementQty", incrementQtyPartial(state2, qty))

SecondDecrementQty ==
  \E qty \in Qtys : Mutate2("decrementQty", decrementQtyPartial(state2, qty))

\* The second tab is opened, or loaded again: its store is created over
\* the storage as it is
SecondCreate ==
  /\ state2' = Rehydrate(storage)
  /\ last' = [op |-> "create", threw |-> HydrateThrows(storage), prior |-> wrote]
  /\ notes' = NoNotes
  /\ UNCHANGED <<state, listeners, storage, full, wrote, unsubscribed, boot, ref, scen, who>>
  /\ TabFrame

NextTabs ==
  \/ FirstIncrement
  \/ FirstDecrement
  \/ FirstReset
  \/ FirstIncrementQty
  \/ FirstDecrementQty
  \/ SecondIncrement
  \/ SecondDecrement
  \/ SecondReset
  \/ SecondIncrementQty
  \/ SecondDecrementQty
  \/ SecondCreate
  \/ Fill
  \/ Free

\* Two instances on a first visit, while the quota may run out
SpecTabs == Init /\ [][NextTabs]_vars

\* ------------------------------- a subscriber that calls the store back
\* Callback 1 keeps the count from going below zero: handed a state with a
\* negative count it calls reset() before it returns.  The other callbacks
\* only look at what they are handed.
Reenters(s, handed) == s = 1 /\ handed.count < 0

\* listeners.forEach(listener => listener(state, previousState)) from the
\* i-th listener on.  state is the variable of the store, read again for
\* every listener; previousState is a local of the running setState.  A
\* callback that calls reset() runs a whole setState, listeners included,
\* before the loop goes on to the next listener.
RECURSIVE ForEachListener(_, _, _, _)
ForEachListener(i, current, previousState, delivered) ==
  IF i > Len(listeners) THEN [state |-> current, notes |-> delivered]
  ELSE LET s == listeners[i]
           handed == [delivered EXCEPT
                        ![s] = Append(@, Delivery(current, previousState, current))]
       IN IF Reenters(s, current)
          THEN LET inner == ForEachListener(1, SetState(current, resetPartial(current)),
                                            current, handed)
               IN ForEachListener(i + 1, inner.state, previousState, inner.notes)
          ELSE ForEachListener(i + 1, current, previousState, handed)

\* One action call while callbacks may call the store back: the outer
\* setItem() runs last and writes the state as it is then
MutateReentrant(op, partial) ==
  LET previousState == state
      done == ForEachListener(1, SetState(state, partial), previousState, NoNotes)
  IN /\ SetState(state, partial).count \in Counts
     /\ state' = done.state
     /\ notes' = done.notes
     /\ storage' = IF full THEN storage ELSE SetItem(done.state)
     /\ wrote' = IF full THEN "failed" ELSE "ok"
     /\ last' = [op |-> op, threw |-> full, prior |-> "none"]
     /\ ref' = done.state.count
     /\ UNCHANGED <<listeners, unsubscribed, boot, full, scen>>
     /\ Frame

ReentrantIncrement == MutateReentrant("increment", incrementPartial(state))

ReentrantDecrement == MutateReentrant("decrement", decrementPartial(state))

ReentrantReset == MutateReentrant("reset", resetPartial(state))

ReentrantIncrementQty ==
  \E qty \in Qtys : MutateReentrant("incrementQty", incrementQtyPartial(state, qty))

ReentrantDecrementQty ==
  \E qty \in Qtys : MutateReentrant("decrementQty", decrementQtyPartial(state, qty))

NextReentrant ==
  \/ ReentrantIncrement
  \/ ReentrantDecrement
  \/ ReentrantReset
  \/ ReentrantIncrementQty
  \/ ReentrantDecrementQty
  \/ Subscribe /\ Frame
  \/ Unsubscribe /\ Frame

\* The store on a first visit with a subscriber that calls it back
SpecReentrant == Init /\ [][NextReentrant]_vars

Mutations == {"increment", "decrement", "reset", "incrementQty", "decrementQty"}

TypeOK ==
  /\ state.count \in Counts
  /\ DOMAIN state = DOMAIN ConfigResult
  /\ storage.present \in BOOLEAN
  /\ full \in BOOLEAN
  /\ wrote \in {"none", "ok", "failed"}
  /\ scen \in (0 - 1)..4

\* ------------------------------------------------------------ properties
\* The count a stored record holds, as a sequence of at most one element
StoredCount(store) ==
  IF ~store.present THEN <<>>
  ELSE LET p == JSONParse(store.value)
       IN IF p.threw \/ p.isNull \/ "count" \notin DOMAIN p.state THEN <<>>
          ELSE <<p.state.count>>

\* C1: after any sequence of increment, decrement, reset, incrementQty(k),
\* decrementQty(k) the count equals a reference counter applying +1, -1,
\* := 0, +k, -k in the same order; from a fresh store increment(),
\* incrementQty(5), decrementQty(2), reset() give 1, 6, 4, 0.
C1_CountFollowsReference ==
  /\ state.count = ref
  /\ scen = 1 => state.count = 1
  /\ scen = 2 => state.count = 6
  /\ scen = 3 => state.count = 4
  /\ scen = 4 => state.count = 0

C1_Witness == scen = 4 /\ last.op = "reset" /\ state.count = 0

\* C2: a store constructed over a storage whose record under the key holds
\* count = c starts with count = c, for every c.
C2_RestoresStoredCount ==
  \A c \in Counts :
    (/\ last.op = "create"
     /\ storage = TextRecord(JSONStringify([count |-> c], OptionsVersion)))
      => state.count = c

C2_Witness ==
  /\ last.op = "create"
  /\ last.prior = "ok"
  /\ StoredCount(storage) = <<5>>
  /\ state.count = 5

C4_DefaultOnBadRecord ==
  boot \in {"absent", "unparseable"} =>
    /\ last.op = "create" => (state = ConfigResult /\ ~last.threw)
    /\ state.count = ref
    /\ DOMAIN state = DOMAIN ConfigResult
    /\ wrote = "ok" => StoredCount(storage) = <<state.count>>

C4_Witness ==
  /\ boot = "unparseable"
  /\ last.op = "incrementQty"
  /\ wrote = "ok"
  /\ state.count = 5

\* C5: when the storage write of a mutation fails, the count is still
\* updated, the subscribers are still notified and no error reaches the
\* caller.
C5_WriteFailureIsSilent ==
  (last.op \in Mutations /\ wrote = "failed") =>
    /\ state.count = ref
    /\ \A s \in Subscribers : IsListener(s) => Len(notes[s]) = 1
    /\ ~last.threw

\* C6: one increment() invokes every registered subscriber exactly once,
\* with previousState.count + 1 = newState.count.
C6_IncrementDeliversOnce ==
  last.op = "increment" =>
    \A s \in Subscribers :
      IsListener(s) =>
        /\ Len(notes[s]) = 1
        /\ notes[s][1].prev + 1 = notes[s][1].new

C6_Witness ==
  /\ last.op = "increment"
  /\ \E s \in Subscribers :
       /\ IsListener(s)
       /\ Len(notes[s]) = 1
       /\ notes[s][1].prev < 0

\* C7: a subscriber whose unsubscribe function has been invoked is invoked
\* by no later mutation, while the registered ones are.
C7_UnsubscribedNotInvoked ==
  last.op \in Mutations =>
    \A s \in Subscribers :
      /\ s \in unsubscribed => notes[s] = <<>>
      /\ IsListener(s) => Len(notes[s]) = 1

C7_Witness ==
  /\ last.op \in Mutations
  /\ \E s, t \in Subscribers :
       /\ s \in unsubscribed
       /\ notes[s] = <<>>
       /\ IsListener(t)
       /\ Len(notes[t]) = 1

\* C8: the state is updated before the first subscriber runs (getState()
\* inside a subscriber gives the post-mutation count), and all subscribers
\* of one mutation get the same newState and the same previousState.
C8_NotifiedAfterUpdate ==
  last.op \in Mutations =>
    \A s, t \in Subscribers :
      (IsListener(s) /\ IsListener(t)) =>
        /\ notes[s] = notes[t]
        /\ Len(notes[s]) = 1
        /\ notes[s][1].seen = ref
        /\ notes[s][1].new = ref

C8_Witness ==
  /\ last.op \in Mutations
  /\ Len(listeners) >= 2
  /\ notes[listeners[1]] = notes[listeners[2]]
  /\ notes[listeners[1]][1].new # notes[listeners[1]][1].prev

\* C9: a callback subscribed with the selector state => state.count is
\* invoked only by mutations that change count.
C9_SelectorFilters ==
  \A s \in Subscribers :
    HasSelector(s) =>
      \A i \in 1..Len(notes[s]) : notes[s][i].new # notes[s][i].prev

\* C10 as stated: reset() yields count = 0 and the stored record then
\* holds count = 0.
C10_ResetAlwaysStored ==
  last.op = "reset" => (state.count = 0 /\ StoredCount(storage) = <<0>>)

\* C10: reset() yields count = 0 from every prior state, and the stored
\* record holds count = 0 whenever the write of that reset was done.
C10_ResetYieldsZero ==
  last.op = "reset" =>
    /\ state.count = 0
    /\ wrote = "ok" => StoredCount(storage) = <<0>>

C10_Witness ==
  /\ last.op = "reset"
  /\ wrote = "ok"
  /\ StoredCount(storage) = <<0>>
  /\ state.count = 0
  /\ boot = "record"

\* C11: incrementQty(k) followed immediately by decrementQty(k) restores
\* the count the pair started from, for every k and every starting count.
C11_QtyPairRestores == run.kind = "restored" => state.count = run.c

C11_Witness ==
  /\ run.kind = "restored"
  /\ run.k < 0
  /\ run.c < 0
  /\ state.count = run.c

\* C12: n consecutive increment() calls from count c yield c + n, and n
\* consecutive decrement() calls yield c - n, below 0 as well.
C12_StreakAddsUp ==
  /\ run.kind = "increment" => state.count = run.c + run.n
  /\ run.kind = "decrement" => state.count = run.c - run.n

C12_Witness ==
  /\ run.kind = "decrement"
  /\ run.c = 1
  /\ run.n = 3
  /\ state.count = 0 - 2

\* C13: parsing the text written for {count: c} gives {count: c} back, for
\* every count the store reaches, negative and zero included; and the store
\* constructed over the record a completed write left starts with the
\* count that was written.
C13_RoundTrip ==
  /\ [](JSONParse(JSONStringify([count |-> state.count], OptionsVersion)) =
          [threw |-> FALSE, isNull |-> FALSE, state |-> [count |-> state.count],
           version |-> OptionsVersion])
  /\ [][(wrote = "ok" /\ last'.op = "create") => state'.count = state.count]_vars

C13_Witness ==
  /\ last.op = "create"
  /\ last.prior = "ok"
  /\ state.count < 0
  /\ storage.value = JSONStringify([count |-> state.count], OptionsVersion)

\* The properties of the state that hold the actions
ActionNames == {"increment", "decrement", "reset", "incrementQty", "decrementQty"}

\* C19: a mutation changes the count field only: the five actions stay in
\* the state, callable, after any sequence of mutations, reset() included,
\* and after the restore from the storage.
C19_ActionsStay ==
  /\ [](\A name \in ActionNames : name \in DOMAIN state /\ state[name] = "fn")
  /\ [][\A name \in ActionNames :
          name \in DOMAIN state' /\ state'[name] = state[name]]_vars

C19_Witness ==
  /\ last.op = "reset"
  /\ boot = "record"
  /\ ref = 0
  /\ \A name \in ActionNames : name \in DOMAIN state /\ state[name] = "fn"

\* C16: getState() returns the current state and does nothing else: the
\* count, the listeners and the stored record are as before and no
\* subscriber is called.
C16_GetStateOnlyReads ==
  [][last'.op = "getState" =>
       /\ got' = state.count
       /\ state' = state
       /\ storage' = storage
       /\ listeners' = listeners
       /\ wrote' = wrote
       /\ \A s \in Subscribers : notes'[s] = <<>>]_vars

C16_Witness ==
  /\ last.op = "getState"
  /\ got = state.count
  /\ state.count < 0
  /\ Len(listeners) = NumSubscribers
  /\ storage # NoRecord

\* C14: the count is a finite integer in every state, and a step changes it
\* only when it is one of the five mutations or the restore at creation.
C14_CountIsInteger ==
  /\ [](~nan /\ state.count \in Int)
  /\ [][state'.count # state.count => last'.op \in Mutations \cup {"create"}]_vars

C14_Witness ==
  /\ last.op = "decrementQty"
  /\ uiQty.kind = "int"
  /\ boot = "record"
  /\ state.count < 0
  /\ ~nan

\* C20: the Count component calls incrementQty/decrementQty only with a qty
\* that is a number other than 0 and NaN; with qty undefined, NaN or 0 the
\* buttons call increment/decrement, so that no click leaves a count or a
\* record that is not a number.
C20_QtyCallsGuarded ==
  /\ [][/\ last'.op \in {"incrementQty", "decrementQty"} =>
            uiQty.kind = "int" /\ uiQty.v # 0
        /\ last'.op \in {"increment", "decrement"} =>
            uiQty.kind \in {"undefined", "nan"} \/ uiQty.v = 0]_vars
  /\ [](~nan /\ (storage.present /\ wrote = "ok" =>
                   storage.value = JSONStringify([count |-> state.count], OptionsVersion)))

C20_Witness ==
  /\ last.op = "increment"
  /\ uiQty = NaN
  /\ state.count = 1
  /\ ~nan

\* C17: started over an empty storage and given the same calls, the store
\* with persist and the store without it have the same count after every
\* call and hand every subscriber the same (new count, previous count).
C17_SameAsPlainStore ==
  /\ plain.count = state.count
  /\ \A s \in Subscribers :
       /\ Len(plainNotes[s]) = Len(notes[s])
       /\ \A i \in 1..Len(notes[s]) :
            /\ plainNotes[s][i].new = notes[s][i].new
            /\ plainNotes[s][i].prev = notes[s][i].prev

C17_Witness ==
  /\ last.op = "reset"
  /\ plain.count = 0
  /\ state.count = 0
  /\ \E s \in Subscribers :
       /\ IsListener(s)
       /\ Len(notes[s]) = 1
       /\ notes[s][1].prev < 0
       /\ plainNotes[s] = notes[s]

\* The in-memory count of the instance that made the latest call
LatestCount == IF who = 1 THEN state.count ELSE state2.count

\* C15 as stated: with two instances on the key, after each mutation the
\* record holds the count of the instance that made it.
C15_RecordIsLatestWriters ==
  last.op \in Mutations => StoredCount(storage) = <<LatestCount>>

\* C15: with two instances on the key, after each mutation whose write the
\* storage took, the record holds the in-memory count of the instance that
\* made it, whatever the other instance wrote before.
C15_LastWriteWins ==
  (last.op \in Mutations /\ wrote = "ok") => StoredCount(storage) = <<LatestCount>>

C15_Witness ==
  /\ last.op \in Mutations
  /\ wrote = "ok"
  /\ who = 2
  /\ state.count > 1
  /\ state2.count < 0
  /\ StoredCount(storage) = <<state2.count>>

\* The deliveries one subscriber got in one action call continue from the
\* count it knew before: each previous count is the new count of the
\* delivery before it, the first one the count known before the call
RECURSIVE IsChain(_, _)
IsChain(known, deliveries) ==
  \/ deliveries = <<>>
  \/ /\ Head(deliveries).prev = known
     /\ IsChain(Head(deliveries).new, Tail(deliveries))

\* C18: every subscriber gets the notifications in the order of the
\* mutations and as a chain: the previous state of each is the new state of
\* the one it got before (the state when it subscribed, for the first), also
\* when a subscriber calls a mutation while it is notified.  A registered
\* subscriber has been handed every state since it subscribed, so the state
\* it knows before a call is the state of the store before the call.
C18_NotificationsChain ==
  [][last'.op \in Mutations =>
       \A s \in Subscribers :
         IsListener(s) =>
           /\ notes'[s] # <<>>
           /\ IsChain(state.count, notes'[s])
           /\ notes'[s][Len(notes'[s])].new = state'.count]_vars

====
